---------------------------- MODULE Spec2Model ----------------------------
(***************************************************************************)
(* Model of invoice_flatten_merge.py (ArchAerialData/flatten-pdf).         *)
(*                                                                         *)
(* Several specifications share this module:                               *)
(*   SpecPair   the pairing engine pair_cover_invoices, run on every list  *)
(*              of at most MaxFiles files of the universe Files;           *)
(*   SpecVary   the pairing engine on a list derived from another one;     *)
(*   Spec       the batch pipeline, as the GUI worker (_process_thread)    *)
(*              and as the CLI entry point (cli_main) run it over the      *)
(*              pairs the pairing engine emitted, on a small file system;  *)
(*   SpecRun    a whole run: the pairing engine, then the pipeline;        *)
(*   SpecValid  is_valid_pdf on a bounded universe of files;               *)
(*   SpecMerge  merge_pdfs on bounded documents;                           *)
(*   SpecGui    the window: the UI thread, the worker thread and the queue *)
(*              between them (SpecGuiFair: with the main loop's fairness). *)
(* File names are sequences of one-character strings, so that lower(),     *)
(* replace(), re.sub() and the f-strings that build the temporary and      *)
(* output names are computed as the code computes them.                    *)
(***************************************************************************)
EXTENDS Integers, Sequences, FiniteSets, TLC

(***************************************************************************)
(* Bounds of the model.                                                    *)
(***************************************************************************)
\* longest input list handed to pair_cover_invoices
MaxFiles == 3

\* most pairs in one batch of the pipeline
MaxPairs == 2

\* most deletions of temporary files that fail in one run
MaxUnlinkFail == 1

\* longest input list whose names or members the caller changes before pairing
MaxVaryLen == 4

\* longest input list of a whole run (pairing, then the pipeline)
MaxRunLen == 4

(***************************************************************************)
(* Characters, strings, pathlib                                            *)
(***************************************************************************)
UpperChars == <<"A", "B", "C", "D", "E", "F", "G", "H", "I", "J", "K", "L", "M",
                "N", "O", "P", "Q", "R", "S", "T", "U", "V", "W", "X", "Y", "Z">>

LowerChars == <<"a", "b", "c", "d", "e", "f", "g", "h", "i", "j", "k", "l", "m",
                "n", "o", "p", "q", "r", "s", "t", "u", "v", "w", "x", "y", "z">>

\* str.lower() on one character
LowerChar(c) ==
    IF \E i \in 1..Len(UpperChars) : UpperChars[i] = c
    THEN LowerChars[CHOOSE i \in 1..Len(UpperChars) : UpperChars[i] = c]
    ELSE c

\* the upper-case form of one character
UpperChar(c) ==
    IF \E i \in 1..Len(LowerChars) : LowerChars[i] = c
    THEN UpperChars[CHOOSE i \in 1..Len(LowerChars) : LowerChars[i] = c]
    ELSE c

\* str.lower()
Lower(s) == [i \in 1..Len(s) |-> LowerChar(s[i])]

\* the Python test  kw in s
Contains(s, kw) ==
    \E i \in 1..(Len(s) - Len(kw) + 1) : SubSeq(s, i, i + Len(kw) - 1) = kw

\* s.replace(kw, ""): the occurrences found scanning from the left, not overlapping
RECURSIVE Remove(_, _)
Remove(s, kw) ==
    IF Len(s) < Len(kw) \/ Len(kw) = 0 THEN s
    ELSE IF SubSeq(s, 1, Len(kw)) = kw
         THEN Remove(SubSeq(s, Len(kw) + 1, Len(s)), kw)
         ELSE <<Head(s)>> \o Remove(Tail(s), kw)

\* the characters of the class [\s_-] that can occur in a file name
SepChars == {" ", "_", "-"}

\* re.sub(r"[\s_-]+", "", s)
StripSeps(s) == SelectSeq(s, LAMBDA c : c \notin SepChars)

\* the position of the last "." of a name (0: none)
LastDot(n) ==
    IF \E i \in 1..Len(n) : n[i] = "."
    THEN CHOOSE i \in 1..Len(n) : n[i] = "." /\ \A j \in (i + 1)..Len(n) : n[j] # "."
    ELSE 0

\* pathlib's PurePath.stem: the name without its last suffix
StemOf(n) == IF LastDot(n) > 1 THEN SubSeq(n, 1, LastDot(n) - 1) ELSE n

PdfExt == <<".", "p", "d", "f">>

\* str.endswith
EndsWith(s, t) == Len(s) >= Len(t) /\ SubSeq(s, Len(s) - Len(t) + 1, Len(s)) = t

\* the members of a list
Range(list) == { list[n] : n \in 1..Len(list) }

\* a path: a folder and a file name
MkPath(d, n) == [dir |-> d, name |-> n]

(***************************************************************************)
(* Keywords                                                                *)
(***************************************************************************)
COVER_KEYWORD == <<"c", "o", "v", "e", "r", " ", "s", "h", "e", "e", "t">>

INVOICE_KEYWORD == <<"i", "n", "v", "o", "i", "c", "e">>

(***************************************************************************)
(* pair_cover_invoices                                                     *)
(***************************************************************************)
\* the nested function sanitize
sanitize(name) ==
    StripSeps(Remove(Remove(Lower(name), COVER_KEYWORD), INVOICE_KEYWORD))

\* stem = pdf.stem.lower()
LowStem(pdf) == Lower(StemOf(pdf.name))

\* key = sanitize(stem)
KeyOf(pdf) == sanitize(LowStem(pdf))

HasCoverKw(pdf) == Contains(LowStem(pdf), COVER_KEYWORD)

HasInvoiceKw(pdf) == Contains(LowStem(pdf), INVOICE_KEYWORD)

\* a dictionary slot that holds nothing (entry.get(...) returns None)
None == <<>>

\* the empty entry that groups.setdefault(key, {}) inserts
EmptyEntry == [cover |-> None, invoice |-> None]

\* faulty variant: the entry is created anew for every file instead of setdefault
EntryForFresh(g, key) == EmptyEntry

\* entry = groups.setdefault(key, {})
EntryFor(g, key) == IF key \in DOMAIN g THEN g[key] ELSE EmptyEntry

\* faulty variant: a file that holds either keyword is written to both slots
FillEntryBoth(entry, pdf) ==
    IF HasCoverKw(pdf) \/ HasInvoiceKw(pdf)
    THEN [entry EXCEPT !.cover = pdf, !.invoice = pdf]
    ELSE entry

\* faulty variant: a file without the cover keyword is taken for an invoice
FillEntryElse(entry, pdf) ==
    IF HasCoverKw(pdf) THEN [entry EXCEPT !.cover = pdf]
    ELSE [entry EXCEPT !.invoice = pdf]

\* faulty variant: a slot that is filled is never written again
FillEntryFirst(entry, pdf) ==
    LET e1 == IF HasCoverKw(pdf) /\ entry.cover = None
              THEN [entry EXCEPT !.cover = pdf] ELSE entry
    IN  IF HasInvoiceKw(pdf) /\ entry.invoice = None
        THEN [e1 EXCEPT !.invoice = pdf] ELSE e1

\* the two role tests and slot writes of one loop iteration
FillEntry(entry, pdf) ==
    LET e1 == IF HasCoverKw(pdf) THEN [entry EXCEPT !.cover = pdf] ELSE entry
    IN  IF HasInvoiceKw(pdf) THEN [e1 EXCEPT !.invoice = pdf] ELSE e1

\* faulty variant: the second loop walks the dictionary from its last key to its first
RECURSIVE CollectPairsReversed(_, _)
CollectPairsReversed(g, order) ==
    IF order = <<>> THEN <<>>
    ELSE LET entry == g[Head(order)]
             rest  == CollectPairsReversed(g, Tail(order))
         IN  IF entry.cover # None /\ entry.invoice # None
             THEN rest \o <<(<<entry.cover, entry.invoice>>)>>
             ELSE rest

\* the second loop: one (cover, invoice) tuple per entry that holds both, in the
\* insertion order of the dictionary
RECURSIVE CollectPairs(_, _)
CollectPairs(g, order) ==
    IF order = <<>> THEN <<>>
    ELSE LET entry == g[Head(order)]
             rest  == CollectPairs(g, Tail(order))
         IN  IF entry.cover # None /\ entry.invoice # None
             THEN <<(<<entry.cover, entry.invoice>>)>> \o rest
             ELSE rest

\* the first loop from position n of list on, begun with dictionary g whose keys
\* were inserted in the order  order
RECURSIVE LoopFrom(_, _, _, _)
LoopFrom(list, n, g, order) ==
    IF n > Len(list) THEN [groups |-> g, gorder |-> order]
    ELSE LET pdf   == list[n]
             key   == KeyOf(pdf)
             entry == FillEntry(EntryFor(g, key), pdf)
         IN  LoopFrom(list, n + 1,
                      [k \in DOMAIN g \cup {key} |-> IF k = key THEN entry ELSE g[k]],
                      IF key \in DOMAIN g THEN order ELSE Append(order, key))

\* pair_cover_invoices(list): the value it returns
PairAll(list) ==
    LET r == LoopFrom(list, 1, <<>>, <<>>) IN CollectPairs(r.groups, r.gorder)

(***************************************************************************)
(* The files the pairing engine is run on                                  *)
(***************************************************************************)
NameCoverA    == COVER_KEYWORD \o <<" ", "a">> \o PdfExt
NameCoverA2   == <<"C", "o", "v", "e", "r", " ", "S", "h", "e", "e", "t", "_", "A">> \o PdfExt
NameInvoiceA  == INVOICE_KEYWORD \o <<" ", "a">> \o PdfExt
NameInvoiceA2 == <<"I", "N", "V", "O", "I", "C", "E", "-", "a">> \o PdfExt
NameCoverB    == COVER_KEYWORD \o <<" ", "b">> \o PdfExt
NameInvoiceB  == INVOICE_KEYWORD \o <<" ", "b">> \o PdfExt
NameBothA     == COVER_KEYWORD \o <<" ">> \o INVOICE_KEYWORD \o <<" ", "a">> \o PdfExt
NamePlainA    == <<"a">> \o PdfExt
NameUnderB    == <<"c", "o", "v", "e", "r", "_", "s", "h", "e", "e", "t", " ", "b">> \o PdfExt

Files ==
    { MkPath("d1", n) : n \in { NameCoverA, NameCoverA2, NameInvoiceA, NameInvoiceA2,
                                NameCoverB, NameInvoiceB, NameBothA, NamePlainA,
                                NameUnderB } }
    \cup { MkPath("d2", NameCoverA), MkPath("d2", NameInvoiceA) }

FileLists == UNION { [1..n -> Files] : n \in 0..MaxFiles }

(***************************************************************************)
(* Names and paths of the pipeline                                         *)
(***************************************************************************)
DigitChars == <<"0", "1", "2", "3", "4", "5", "6", "7", "8", "9">>

\* str(i) for the index of a pair in its batch
StrOfIndex(i) == <<DigitChars[i + 1]>>

TEMP_FLAT_PREFIX == <<"T", "E", "M", "P", "_", "F", "L", "A", "T", "_">>

TEMP_FINAL_PREFIX == <<"T", "E", "M", "P", "_", "F", "I", "N", "A", "L", "_">>

MERGED_PREFIX == <<"M", "E", "R", "G", "E", "D", "_">>

\* f"TEMP_FLAT_{cover.stem}_{i}.pdf"
TempFlatName(cover, i) ==
    TEMP_FLAT_PREFIX \o StemOf(cover.name) \o <<"_">> \o StrOfIndex(i) \o PdfExt

\* faulty variant: the derived output name leaves the invoice's stem out
MergedNameFixed(invoice) == MERGED_PREFIX \o PdfExt

\* f"MERGED_{invoice.stem}.pdf"
MergedName(invoice) == MERGED_PREFIX \o StemOf(invoice.name) \o PdfExt

\* f"TEMP_FINAL_{final_out.stem}_{i}.pdf" of the GUI worker
TempFinalNameGui(final, i) ==
    TEMP_FINAL_PREFIX \o StemOf(final.name) \o <<"_">> \o StrOfIndex(i) \o PdfExt

\* f"TEMP_FINAL_{out_file.stem}.pdf" of the CLI
TempFinalNameCli(final) == TEMP_FINAL_PREFIX \o StemOf(final.name) \o PdfExt

\* the whitespace that can occur in the text of the output-name entry
WhiteChars == {" "}

\* str.strip()
Strip(s) ==
    LET keep == { i \in 1..Len(s) : s[i] \notin WhiteChars }
    IN  IF keep = {} THEN <<>>
        ELSE SubSeq(s, CHOOSE i \in keep : \A j \in keep : i <= j,
                       CHOOSE i \in keep : \A j \in keep : i >= j)

\* the GUI's out_name: the entry's text stripped, ".pdf" appended unless it ends
\* with it
GuiOutName(raw) ==
    LET name == Strip(raw) IN IF EndsWith(name, PdfExt) THEN name ELSE name \o PdfExt

(***************************************************************************)
(* The file system: a function from the paths that exist to their content  *)
(***************************************************************************)
Exists(f, p) == p \in DOMAIN f

Write(f, p, c) == [q \in DOMAIN f \cup {p} |-> IF q = p THEN c ELSE f[q]]

Unlink(f, p) == [q \in DOMAIN f \ {p} |-> f[q]]

\* Path.rename(a, b) where b does not exist
Rename(f, a, b) == Write(Unlink(f, a), b, f[a])

\* contents: an input as supplied, a file that was in the folder before the run,
\* Ghostscript's output for a content, PyPDF2's concatenation of two contents,
\* and what a writer that failed half way leaves
Orig(p) == <<"orig", p>>
Old(p) == <<"old", p>>
Flat(c) == <<"flat", c>>
Merged(a, b) == <<"merged", a, b>>
Partial == <<"partial">>

\* gs_flatten(src, dst): the outcomes of one call, each with the file system it
\* leaves. FileNotFoundError when src is missing; otherwise Ghostscript succeeds, or
\* fails (executable missing, non-zero exit) having written nothing or a part of dst
GsFlatten(f, src, dst) ==
    IF ~Exists(f, src) THEN { [ok |-> FALSE, fs |-> f] }
    ELSE { [ok |-> TRUE, fs |-> Write(f, dst, Flat(f[src]))],
           [ok |-> FALSE, fs |-> f],
           [ok |-> FALSE, fs |-> Write(f, dst, Partial)] }

\* merge_pdfs(first, second, out_pdf): FileNotFoundError when an input is missing;
\* otherwise both are read, then out_pdf is opened "wb" and written. A read error
\* leaves the file system alone, a write error leaves a truncated out_pdf
MergePdfs(f, first, second, out) ==
    IF ~Exists(f, first) \/ ~Exists(f, second) THEN { [ok |-> FALSE, fs |-> f] }
    ELSE { [ok |-> TRUE, fs |-> Write(f, out, Merged(f[first], f[second]))],
           [ok |-> FALSE, fs |-> f],
           [ok |-> FALSE, fs |-> Write(f, out, Partial)] }

(***************************************************************************)
(* The batches the pipeline is run on                                      *)
(***************************************************************************)
IdChars == <<"a", "b", "c", "d", "e", "f", "g", "h", "i">>

CoverOf(k) == MkPath("d1", COVER_KEYWORD \o <<" ", IdChars[k]>> \o PdfExt)

InvoiceOf(k) == MkPath("d1", INVOICE_KEYWORD \o <<" ", IdChars[k]>> \o PdfExt)

\* the pairs pair_cover_invoices returns for n cover sheets and their n invoices
PairsOf(n) == [k \in 1..n |-> <<CoverOf(k), InvoiceOf(k)>>]

\* the output folder the caller may supply: the folder of the inputs (the GUI's
\* default, the parent of the first selected file) or another one
OutFolders == {"d1", "d2"}

NameOut == <<"o", "u", "t">>

\* the same name as typed with a space before it
NameOutPadded == <<" ">> \o NameOut

\* the output names the caller may supply: a fresh name without suffix, the same
\* with a space before it, the name of the first invoice, and the name the first
\* Job gives its flattened cover
OutNames == { NameOut, NameOutPadded, InvoiceOf(1).name, TempFlatName(CoverOf(1), 0) }

(***************************************************************************)
(* State                                                                   *)
(***************************************************************************)
VARIABLES
    ppc,      \* pair_cover_invoices: "loop", "collect", "done" ("off": not run)
    pdfs,     \* its argument
    pdfs0,    \* the list the argument was derived from (the argument itself when
              \* the caller changed nothing)
    idx,      \* the position of the first loop in pdfs
    groups,   \* the dictionary groups: key -> entry
    gorder,   \* the insertion order of its keys
    pairs,    \* the returned list; the list the pipeline iterates over
    mode,     \* the entry point that runs the pipeline: "gui", "cli" ("off": none)
    out_folder, \* GUI: output_folder; CLI: args.output.parent
    out_raw,  \* GUI: the text of the output-name entry; CLI: args.output.name
    fs,       \* the file system
    fs0,      \* the file system when the run began
    pc,       \* the statement the run is at
    jobi,     \* i of  for i, (cover, invoice) in enumerate(pairs)
    temp_flat,  \* the local temp_flat (None: unbound)
    temp_final, \* the local temp_final (None: None or unbound)
    final_out,  \* the local final_out / out_file (None: unbound)
    successful, \* the GUI worker's counter
    failed,     \* the GUI worker's counter
    terminal,   \* the terminal event the GUI worker put ("success", "error"), or None
    exitcode,   \* the exit code of the CLI process, or None while it runs
    status,   \* per Job: "pending", "done", "failed", "skipped"
    steps,    \* per Job: the steps that succeeded, in order
    answer,   \* per Job: the answer to the overwrite confirmation ("none": not asked)
    before,   \* per Job: what was at its final path when the Job began (None: nothing)
    undeleted, \* the temporary files whose deletion failed
    iv,       \* the call of is_valid_pdf that runs on its own: a record of
              \*   file    what is at filepath
              \*   pc      "open", "read", "compare", "done" ("off": no call)
              \*   header  the local header
              \*   ret     "True", "False", "raised" ("running" during the call)
    selected_files, \* GUI: self.selected_files
    processing,     \* GUI: self.processing
    enabled,   \* GUI: the state _update_ui_state gave the start and clear buttons
    eventq,    \* GUI: self.q, the events put and not yet got (their types)
    polls,     \* GUI: the calls of _check_queue that after() has scheduled
    upc,       \* GUI: the UI thread: "idle", or "drain" inside _check_queue
    wpc,       \* GUI: the worker thread's position in _process_thread ("idle": no
               \* thread was started, "end": it returned)
    wi,        \* GUI: the position of the comprehension over self.selected_files
    live,      \* GUI: the worker threads that were started and have not returned
    gs_ok,     \* whether the Ghostscript executable can be run
    edits,     \* GUI: the changes of the selected-file list made so far
    sent,      \* GUI: the events the worker of this run has put, in order
    seen,      \* GUI: the events of this run _check_queue has got, in order
    busy_hit,  \* GUI: whether _start has been called while processing was set
    mg        \* the call of merge_pdfs that runs on its own: a record of
              \*   fs      the documents at the paths that exist
              \*   fs0     the documents when the call began
              \*   first, second, out   the arguments
              \*   pc      "exists", "reader", "pages", "write", "done" ("off")
              \*   file    the position of  for pdf_path in (first, second)
              \*   page    the position of  for page in reader.pages
              \*   reader  the pages of the reader that is open
              \*   writer  the pages added to the writer
              \*   ret     "None" (returned) or the exception raised ("running")

pvars == <<ppc, pdfs, pdfs0, idx, groups, gorder>>

bvars == <<mode, out_folder, out_raw, fs, fs0, pc, jobi, temp_flat, temp_final,
           final_out, successful, failed, terminal, exitcode, status, steps,
           answer, before, undeleted>>

\* the variables of the helper functions run on their own
fvars == <<iv, mg>>

\* the variables of the GUI: the UI thread, the worker thread and their channel
gvars == <<selected_files, processing, enabled, eventq, polls, upc, wpc, wi, live, gs_ok,
           edits, sent, seen, busy_hit>>

\* the variables of the other specifications of this module
ovars == <<fvars, gvars>>

vars == <<ppc, pdfs, pdfs0, idx, groups, gorder, pairs, mode, out_folder, out_raw, fs, fs0,
          pc, jobi, temp_flat, temp_final, final_out, successful, failed, terminal,
          exitcode, status, steps, answer, before, undeleted, ovars>>

\* the pipeline's variables while only the pairing engine runs
BatchOff ==
    /\ mode = "off" /\ out_folder = "d1" /\ out_raw = <<>> /\ fs = <<>> /\ fs0 = <<>>
    /\ pc = "off" /\ jobi = 0 /\ temp_flat = None /\ temp_final = None
    /\ final_out = None /\ successful = 0 /\ failed = 0 /\ terminal = None
    /\ exitcode = None /\ status = <<>> /\ steps = <<>> /\ answer = <<>>
    /\ before = <<>> /\ undeleted = {}

\* the pairing engine's variables while the pipeline runs on its result
PairOff ==
    /\ ppc = "off" /\ pdfs = <<>> /\ pdfs0 = <<>> /\ idx = 0 /\ groups = <<>>
    /\ gorder = <<>>

\* the helper functions' variables while they are not run on their own
FnOff ==
    /\ iv = [pc |-> "off"]
    /\ mg = [pc |-> "off"]

\* the GUI's variables while no window is open
GuiOff ==
    /\ selected_files = <<>> /\ processing = FALSE /\ enabled = TRUE /\ eventq = <<>>
    /\ polls = 0 /\ upc = "off" /\ wpc = "off" /\ wi = 0 /\ live = 0 /\ gs_ok = TRUE
    /\ edits = 0 /\ sent = <<>> /\ seen = <<>> /\ busy_hit = FALSE

\* the variables of the other specifications while the pairing engine or the
\* pipeline runs
OthersOff == FnOff /\ GuiOff

(***************************************************************************)
(* SpecPair: pair_cover_invoices on every bounded input list               *)
(***************************************************************************)
InitPair ==
    /\ ppc = "loop"
    /\ pdfs \in FileLists
    /\ pdfs0 = pdfs
    /\ idx = 1
    /\ groups = <<>>
    /\ gorder = <<>>
    /\ pairs = <<>>
    /\ BatchOff
    /\ OthersOff

\* one iteration of  for pdf in pdfs
PairLoop ==
    /\ ppc = "loop"
    /\ idx <= Len(pdfs)
    /\ LET pdf   == pdfs[idx]
           key   == KeyOf(pdf)
           entry == FillEntry(EntryFor(groups, key), pdf)
       IN  /\ groups' = [k \in DOMAIN groups \cup {key} |->
                            IF k = key THEN entry ELSE groups[k]]
           /\ gorder' = IF key \in DOMAIN groups THEN gorder ELSE Append(gorder, key)
    /\ idx' = idx + 1
    /\ UNCHANGED <<ppc, pdfs, pdfs0, pairs>>
    /\ UNCHANGED <<bvars, ovars>>

\* the first loop is exhausted: the second loop builds the list and returns it
PairCollect ==
    /\ ppc = "loop"
    /\ idx > Len(pdfs)
    /\ pairs' = CollectPairs(groups, gorder)
    /\ ppc' = "done"
    /\ UNCHANGED <<pdfs, pdfs0, idx, groups, gorder>>
    /\ UNCHANGED <<bvars, ovars>>

NextPair == PairLoop \/ PairCollect

SpecPair == InitPair /\ [][NextPair]_vars

(***************************************************************************)
(* SpecVary: pair_cover_invoices on a list the caller derived from another *)
(* one, by changing the case or the separators of the part of one file     *)
(* name that is no keyword, or by adding a file that holds no keyword      *)
(***************************************************************************)
\* a cover sheet and its invoice whose common remainder, "in voice b", holds the
\* letters of a keyword
NameCoverSplitB ==
    COVER_KEYWORD \o <<" ", "i", "n", " ", "v", "o", "i", "c", "e", " ", "b">> \o PdfExt

NameInvoiceSplitB ==
    INVOICE_KEYWORD \o <<" ", "i", "n", " ", "v", "o", "i", "c", "e", " ", "b">> \o PdfExt

VaryFiles ==
    { MkPath("d1", n) : n \in { NameCoverA, NameInvoiceA, NameCoverSplitB,
                                NameInvoiceSplitB } }

\* the lists of distinct files of VaryFiles
VaryLists ==
    UNION { { l \in [1..n -> VaryFiles] : \A i, j \in 1..n : i # j => l[i] # l[j] } :
            n \in 0..MaxVaryLen }

\* files that hold neither keyword, with the grouping key of a pair and with another
UnmatchedFiles == { MkPath("d1", NamePlainA), MkPath("d1", NameUnderB) }

\* the occurrences of a keyword in stem s, as pairs (first position, last position)
KeywordSpans(s) ==
    LET low == Lower(s)
        At(kw) == { b \in 1..(Len(s) - Len(kw) + 1) : SubSeq(low, b, b + Len(kw) - 1) = kw }
    IN  { <<b, b + Len(COVER_KEYWORD) - 1>> : b \in At(COVER_KEYWORD) }
        \cup { <<b, b + Len(INVOICE_KEYWORD) - 1>> : b \in At(INVOICE_KEYWORD) }

\* the positions of stem s that belong to the part that is no keyword
OutsideKeyword(s) ==
    LET spans == KeywordSpans(s)
    IN  { i \in 1..Len(s) : \A sp \in spans : i < sp[1] \/ i > sp[2] }

\* the gaps of stem s that are not inside a keyword; gap i lies before position i,
\* gap Len(s) + 1 at the end
GapsOutsideKeyword(s) ==
    LET spans == KeywordSpans(s)
    IN  { i \in 1..(Len(s) + 1) : \A sp \in spans : i <= sp[1] \/ i > sp[2] }

\* the suffix of a file name
ExtOf(n) == SubSeq(n, Len(StemOf(n)) + 1, Len(n))

\* stem s with the case of one letter of its non-keyword part changed
CaseVariants(s) ==
    { [s EXCEPT ![i] = IF LowerChar(s[i]) = s[i] THEN UpperChar(s[i]) ELSE LowerChar(s[i])] :
        i \in { j \in OutsideKeyword(s) : LowerChar(s[j]) # s[j] \/ UpperChar(s[j]) # s[j] } }

\* stem s with one separator inserted in its non-keyword part
InsertVariants(s) ==
    { SubSeq(s, 1, i - 1) \o <<c>> \o SubSeq(s, i, Len(s)) :
        i \in GapsOutsideKeyword(s), c \in SepChars }

\* stem s with one separator of its non-keyword part removed
RemoveVariants(s) ==
    { SubSeq(s, 1, i - 1) \o SubSeq(s, i + 1, Len(s)) :
        i \in { j \in OutsideKeyword(s) : s[j] \in SepChars } }

\* stem s with one separator of its non-keyword part exchanged for another
ExchangeVariants(s) ==
    { [s EXCEPT ![i] = c] :
        i \in { j \in OutsideKeyword(s) : s[j] \in SepChars },
        c \in SepChars } \ {s}

\* the list with the stem of the file at position n replaced by v
WithStem(list, n, v) == [list EXCEPT ![n] = MkPath(@.dir, v \o ExtOf(@.name))]

InitVary ==
    /\ ppc = "vary"
    /\ pdfs0 \in VaryLists
    /\ pdfs = pdfs0
    /\ idx = 1
    /\ groups = <<>>
    /\ gorder = <<>>
    /\ pairs = <<>>
    /\ BatchOff
    /\ OthersOff

\* the caller hands over the list with the stem of one cover or invoice file changed
\* to v, and the engine starts
Varied(n, v) ==
    /\ HasCoverKw(pdfs[n]) \/ HasInvoiceKw(pdfs[n])
    /\ pdfs' = WithStem(pdfs, n, v)
    /\ ppc' = "loop"
    /\ UNCHANGED <<pdfs0, idx, groups, gorder, pairs>>
    /\ UNCHANGED <<bvars, ovars>>

VaryCase ==
    /\ ppc = "vary"
    /\ \E n \in 1..Len(pdfs) : \E v \in CaseVariants(StemOf(pdfs[n].name)) : Varied(n, v)

VarySepInsert ==
    /\ ppc = "vary"
    /\ \E n \in 1..Len(pdfs) : \E v \in InsertVariants(StemOf(pdfs[n].name)) : Varied(n, v)

VarySepRemove ==
    /\ ppc = "vary"
    /\ \E n \in 1..Len(pdfs) : \E v \in RemoveVariants(StemOf(pdfs[n].name)) : Varied(n, v)

VarySepExchange ==
    /\ ppc = "vary"
    /\ \E n \in 1..Len(pdfs) : \E v \in ExchangeVariants(StemOf(pdfs[n].name)) : Varied(n, v)

\* the caller hands over the list with a file that holds no keyword added before
\* position n, and the engine starts
AddUnmatched ==
    /\ ppc = "vary"
    /\ \E n \in 1..(Len(pdfs) + 1) : \E f \in UnmatchedFiles :
          pdfs' = SubSeq(pdfs, 1, n - 1) \o <<f>> \o SubSeq(pdfs, n, Len(pdfs))
    /\ ppc' = "loop"
    /\ UNCHANGED <<pdfs0, idx, groups, gorder, pairs>>
    /\ UNCHANGED <<bvars, ovars>>

NextVary ==
    \/ VaryCase \/ VarySepInsert \/ VarySepRemove \/ VarySepExchange \/ AddUnmatched
    \/ PairLoop \/ PairCollect

SpecVary == InitVary /\ [][NextVary]_vars

(***************************************************************************)
(* The batch pipeline: helpers                                             *)
(***************************************************************************)
\* cover and invoice of the pair with index j (counted from 0, as enumerate does)
CoverAt(j) == pairs[j + 1][1]

InvoiceAt(j) == pairs[j + 1][2]

\* out_folder / f"TEMP_FLAT_{cover.stem}_{i}.pdf"  (both entry points)
TempFlatAt(j) == MkPath(out_folder, TempFlatName(CoverAt(j), j))

\* faulty variant: the GUI worker names every output after its invoice
GuiFinalAlwaysMerged(j) == MkPath(out_folder, MergedName(InvoiceAt(j)))

\* the GUI worker's final_out
GuiFinalOut(j) ==
    IF Len(pairs) = 1 THEN MkPath(out_folder, GuiOutName(out_raw))
    ELSE MkPath(out_folder, MergedName(InvoiceAt(j)))

\* the CLI's out_file
CliFinalOut(j) ==
    IF Len(pairs) = 1 THEN MkPath(out_folder, out_raw)
    ELSE MkPath(out_folder, MergedName(InvoiceAt(j)))

\* the final output path of Job j under the entry point that runs
FinalOutOf(j) == IF mode = "gui" THEN GuiFinalOut(j) ELSE CliFinalOut(j)

\* temp_final of the GUI worker and of the CLI
GuiTempFinal(final, j) == MkPath(out_folder, TempFinalNameGui(final, j))

CliTempFinal(final) == MkPath(final.dir, TempFinalNameCli(final))

\* what is at path p (None: nothing)
AtPath(f, p) == IF Exists(f, p) THEN f[p] ELSE None

\* Path.unlink(): it succeeds, or raises and leaves the file
UnlinkOutcomes(f, p) ==
    IF Exists(f, p) THEN { [ok |-> TRUE, fs |-> Unlink(f, p)], [ok |-> FALSE, fs |-> f] }
    ELSE { [ok |-> FALSE, fs |-> f] }

\* Path.rename(): it succeeds, or raises and leaves both paths as they are
RenameOutcomes(f, a, b) ==
    IF Exists(f, a) THEN { [ok |-> TRUE, fs |-> Rename(f, a, b)], [ok |-> FALSE, fs |-> f] }
    ELSE { [ok |-> FALSE, fs |-> f] }

\* the GUI worker's replace step:
\*   if final_out.exists(): final_out.unlink()
\*   temp_final.rename(final_out)
GuiReplace(f, final, tmp) ==
    LET first == IF Exists(f, final) THEN UnlinkOutcomes(f, final)
                 ELSE { [ok |-> TRUE, fs |-> f] }
    IN  { u \in first : ~u.ok }
        \cup UNION { RenameOutcomes(u.fs, tmp, final) : u \in { v \in first : v.ok } }

\* the CLI's replace step:  out_file.unlink(); temp_final.rename(out_file)
CliReplace(f, final, tmp) ==
    LET first == UnlinkOutcomes(f, final)
    IN  { u \in first : ~u.ok }
        \cup UNION { RenameOutcomes(u.fs, tmp, final) : u \in { v \in first : v.ok } }

\* the sets of temporary files a clean-up may fail to delete: any of those that
\* exist, within the bound on failed deletions
MayRemain(f, temps) ==
    { keep \in SUBSET { t \in temps : t # None /\ Exists(f, t) } :
        Cardinality(undeleted \cup keep) <= MaxUnlinkFail }

\* faulty variant: the clean-up deletes nothing
RemoveTempsNothing(f, temps, keep) == f

\* the file system after the clean-up loop: every temporary file that exists is
\* unlinked, except those whose unlink fails (keep)
RemoveTemps(f, temps, keep) ==
    [q \in DOMAIN f \ { t \in temps : t # None /\ t \notin keep } |-> f[q]]

\* faulty variant: the "no" answer is logged but the continue is missing
AfterConfirmNoContinue(response) == "merge"

\* where the GUI worker goes after the confirmation: on, or (continue) to the finally
AfterConfirm(response) == IF response THEN "merge" ELSE "cleanup"

Mark(seq, j, v) == [seq EXCEPT ![j + 1] = v]

\* the record of the steps a Job invoked: the step and whether it succeeded
Did(j, step, ok) == [steps EXCEPT ![j + 1] = Append(@, <<step, ok>>)]

(***************************************************************************)
(* Spec: the batch pipeline on the pairs of a bounded batch                *)
(***************************************************************************)
Inputs == { pairs[k][r] : k \in 1..Len(pairs), r \in 1..2 }

\* a file an earlier run on the same files may have left in the output folder: the
\* flattened cover of its first pair
LeftOver == { TempFlatAt(0) }

Init ==
    /\ PairOff
    /\ mode \in {"gui", "cli"}
    /\ \E n \in 1..MaxPairs : pairs = PairsOf(n)
    /\ out_folder \in OutFolders
    /\ out_raw \in (IF Len(pairs) = 1 THEN OutNames ELSE {NameOut})
    /\ \E old \in SUBSET (({ FinalOutOf(j) : j \in 0..(Len(pairs) - 1) }
                              \cup LeftOver) \ Inputs) :
          fs = [p \in Inputs \cup old |-> IF p \in Inputs THEN Orig(p) ELSE Old(p)]
    /\ fs0 = fs
    /\ pc = "flatten_cover"
    /\ jobi = 0
    /\ temp_flat = None /\ temp_final = None /\ final_out = None
    /\ successful = 0 /\ failed = 0
    /\ terminal = None /\ exitcode = None
    /\ status = [k \in 1..Len(pairs) |-> "pending"]
    /\ steps = [k \in 1..Len(pairs) |-> <<>>]
    /\ answer = [k \in 1..Len(pairs) |-> "none"]
    /\ before = [k \in 1..Len(pairs) |-> None]
    /\ undeleted = {}
    /\ OthersOff

\* the GUI worker's  except Exception: ... failed += 1, entered with file system f
GuiExcept(f) ==
    /\ fs' = f
    /\ status' = Mark(status, jobi, "failed")
    /\ failed' = failed + 1
    /\ pc' = "cleanup"

\* GUI worker, lines 584-591: the temporary names, then gs_flatten(cover, temp_flat)
GuiFlattenCover ==
    /\ mode = "gui" /\ pc = "flatten_cover"
    /\ temp_flat' = TempFlatAt(jobi)
    /\ temp_final' = None
    /\ before' = Mark(before, jobi, AtPath(fs, GuiFinalOut(jobi)))
    /\ \E r \in GsFlatten(fs, CoverAt(jobi), TempFlatAt(jobi)) :
          IF r.ok
          THEN /\ fs' = r.fs
               /\ pc' = "check"
               /\ steps' = Did(jobi, "flatten_cover", TRUE)
               /\ UNCHANGED <<status, failed>>
          ELSE /\ GuiExcept(r.fs)
               /\ steps' = Did(jobi, "flatten_cover", FALSE)
    /\ UNCHANGED <<pairs, mode, out_folder, out_raw, fs0, jobi, final_out, successful,
                   terminal, exitcode, answer, undeleted>>
    /\ UNCHANGED <<pvars, ovars>>

\* GUI worker, lines 593-608: final_out, and the confirmation when it exists
GuiCheckExists ==
    /\ mode = "gui" /\ pc = "check"
    /\ final_out' = GuiFinalOut(jobi)
    /\ IF Exists(fs, GuiFinalOut(jobi))
       THEN \E response \in BOOLEAN :
               /\ answer' = Mark(answer, jobi, IF response THEN "yes" ELSE "no")
               /\ status' = IF response THEN status ELSE Mark(status, jobi, "skipped")
               /\ pc' = AfterConfirm(response)
       ELSE /\ pc' = "merge"
            /\ UNCHANGED <<answer, status>>
    /\ UNCHANGED <<pairs, mode, out_folder, out_raw, fs, fs0, jobi, temp_flat,
                   temp_final, successful, failed, terminal, exitcode, steps, before,
                   undeleted>>
    /\ UNCHANGED <<pvars, ovars>>

\* GUI worker, lines 610-612: merge_pdfs(temp_flat, invoice, final_out)
GuiMerge ==
    /\ mode = "gui" /\ pc = "merge"
    /\ \E r \in MergePdfs(fs, temp_flat, InvoiceAt(jobi), final_out) :
          IF r.ok
          THEN /\ fs' = r.fs
               /\ pc' = "flatten_final"
               /\ steps' = Did(jobi, "merge", TRUE)
               /\ UNCHANGED <<status, failed>>
          ELSE /\ GuiExcept(r.fs)
               /\ steps' = Did(jobi, "merge", FALSE)
    /\ UNCHANGED <<pairs, mode, out_folder, out_raw, fs0, jobi, temp_flat, temp_final,
                   final_out, successful, terminal, exitcode, answer, before, undeleted>>
    /\ UNCHANGED <<pvars, ovars>>

\* GUI worker, lines 614-617: temp_final, then gs_flatten(final_out, temp_final)
GuiFlattenFinal ==
    /\ mode = "gui" /\ pc = "flatten_final"
    /\ temp_final' = GuiTempFinal(final_out, jobi)
    /\ \E r \in GsFlatten(fs, final_out, GuiTempFinal(final_out, jobi)) :
          IF r.ok
          THEN /\ fs' = r.fs
               /\ pc' = "replace"
               /\ steps' = Did(jobi, "flatten_final", TRUE)
               /\ UNCHANGED <<status, failed>>
          ELSE /\ GuiExcept(r.fs)
               /\ steps' = Did(jobi, "flatten_final", FALSE)
    /\ UNCHANGED <<pairs, mode, out_folder, out_raw, fs0, jobi, temp_flat, final_out,
                   successful, terminal, exitcode, answer, before, undeleted>>
    /\ UNCHANGED <<pvars, ovars>>

\* GUI worker, lines 619-625: the replace step, then successful += 1
GuiReplaceStep ==
    /\ mode = "gui" /\ pc = "replace"
    /\ \E r \in GuiReplace(fs, final_out, temp_final) :
          IF r.ok
          THEN /\ fs' = r.fs
               /\ status' = Mark(status, jobi, "done")
               /\ successful' = successful + 1
               /\ steps' = Did(jobi, "replace", TRUE)
               /\ pc' = "cleanup"
               /\ UNCHANGED failed
          ELSE /\ GuiExcept(r.fs)
               /\ steps' = Did(jobi, "replace", FALSE)
               /\ UNCHANGED successful
    /\ UNCHANGED <<pairs, mode, out_folder, out_raw, fs0, jobi, temp_flat, temp_final,
                   final_out, terminal, exitcode, answer, before, undeleted>>
    /\ UNCHANGED <<pvars, ovars>>

\* GUI worker, lines 631-638: the finally clause, then the next iteration
GuiCleanup ==
    /\ mode = "gui" /\ pc = "cleanup"
    /\ \E keep \in MayRemain(fs, {temp_flat, temp_final}) :
          /\ fs' = RemoveTemps(fs, {temp_flat, temp_final}, keep)
          /\ undeleted' = undeleted \cup keep
    /\ jobi' = jobi + 1
    /\ pc' = IF jobi + 1 < Len(pairs) THEN "flatten_cover" ELSE "report"
    /\ UNCHANGED <<pairs, mode, out_folder, out_raw, fs0, temp_flat, temp_final,
                   final_out, successful, failed, terminal, exitcode, status, steps,
                   answer, before>>
    /\ UNCHANGED <<pvars, ovars>>

\* GUI worker, lines 640-650: the terminal event after the loop
GuiReport ==
    /\ mode = "gui" /\ pc = "report"
    /\ terminal' = IF successful > 0 THEN "success" ELSE "error"
    /\ pc' = "end"
    /\ UNCHANGED <<pairs, mode, out_folder, out_raw, fs, fs0, jobi, temp_flat,
                   temp_final, final_out, successful, failed, exitcode, status, steps,
                   answer, before, undeleted>>
    /\ UNCHANGED <<pvars, ovars>>

\* CLI, lines 781-786: the handler of the try around the whole loop, entered with
\* file system f and temp_flat bound to tf; the process exits with code 1
CliExcept(f, tf) ==
    /\ status' = Mark(status, jobi, "failed")
    /\ exitcode' = 1
    /\ pc' = "end"
    /\ \E keep \in MayRemain(f, {tf}) :
          /\ fs' = RemoveTemps(f, {tf}, keep)
          /\ undeleted' = undeleted \cup keep

\* CLI, lines 753-757
CliFlattenCover ==
    /\ mode = "cli" /\ pc = "flatten_cover"
    /\ temp_flat' = TempFlatAt(jobi)
    /\ before' = Mark(before, jobi, AtPath(fs, CliFinalOut(jobi)))
    /\ \E r \in GsFlatten(fs, CoverAt(jobi), TempFlatAt(jobi)) :
          IF r.ok
          THEN /\ fs' = r.fs
               /\ pc' = "merge"
               /\ steps' = Did(jobi, "flatten_cover", TRUE)
               /\ UNCHANGED <<status, exitcode, undeleted>>
          ELSE /\ CliExcept(r.fs, TempFlatAt(jobi))
               /\ steps' = Did(jobi, "flatten_cover", FALSE)
    /\ UNCHANGED <<pairs, mode, out_folder, out_raw, fs0, jobi, temp_final, final_out,
                   successful, failed, terminal, answer>>
    /\ UNCHANGED <<pvars, ovars>>

\* CLI, lines 759-765: out_file, then merge_pdfs(temp_flat, invoice, out_file)
CliMerge ==
    /\ mode = "cli" /\ pc = "merge"
    /\ final_out' = CliFinalOut(jobi)
    /\ \E r \in MergePdfs(fs, temp_flat, InvoiceAt(jobi), CliFinalOut(jobi)) :
          IF r.ok
          THEN /\ fs' = r.fs
               /\ pc' = "flatten_final"
               /\ steps' = Did(jobi, "merge", TRUE)
               /\ UNCHANGED <<status, exitcode, undeleted>>
          ELSE /\ CliExcept(r.fs, temp_flat)
               /\ steps' = Did(jobi, "merge", FALSE)
    /\ UNCHANGED <<pairs, mode, out_folder, out_raw, fs0, jobi, temp_flat, temp_final,
                   successful, failed, terminal, answer, before>>
    /\ UNCHANGED <<pvars, ovars>>

\* CLI, lines 767-770
CliFlattenFinal ==
    /\ mode = "cli" /\ pc = "flatten_final"
    /\ temp_final' = CliTempFinal(final_out)
    /\ \E r \in GsFlatten(fs, final_out, CliTempFinal(final_out)) :
          IF r.ok
          THEN /\ fs' = r.fs
               /\ pc' = "replace"
               /\ steps' = Did(jobi, "flatten_final", TRUE)
               /\ UNCHANGED <<status, exitcode, undeleted>>
          ELSE /\ CliExcept(r.fs, temp_flat)
               /\ steps' = Did(jobi, "flatten_final", FALSE)
    /\ UNCHANGED <<pairs, mode, out_folder, out_raw, fs0, jobi, temp_flat, final_out,
                   successful, failed, terminal, answer, before>>
    /\ UNCHANGED <<pvars, ovars>>

\* CLI, lines 771-774: the replace step, then the next iteration
CliReplaceStep ==
    /\ mode = "cli" /\ pc = "replace"
    /\ \E r \in CliReplace(fs, final_out, temp_final) :
          IF r.ok
          THEN /\ fs' = r.fs
               /\ status' = Mark(status, jobi, "done")
               /\ steps' = Did(jobi, "replace", TRUE)
               /\ jobi' = jobi + 1
               /\ pc' = IF jobi + 1 < Len(pairs) THEN "flatten_cover" ELSE "finish"
               /\ UNCHANGED <<exitcode, undeleted>>
          ELSE /\ CliExcept(r.fs, temp_flat)
               /\ steps' = Did(jobi, "replace", FALSE)
               /\ UNCHANGED jobi
    /\ UNCHANGED <<pairs, mode, out_folder, out_raw, fs0, temp_flat, temp_final,
                   final_out, successful, failed, terminal, answer, before>>
    /\ UNCHANGED <<pvars, ovars>>

\* CLI, lines 776-779: after the loop the last temp_flat is deleted; when that
\* unlink raises, the handler's own unlink raises too and the process exits with 1
CliFinish ==
    /\ mode = "cli" /\ pc = "finish"
    /\ \E keep \in MayRemain(fs, {temp_flat}) :
          /\ fs' = RemoveTemps(fs, {temp_flat}, keep)
          /\ undeleted' = undeleted \cup keep
          /\ exitcode' = IF keep = {} THEN 0 ELSE 1
    /\ pc' = "end"
    /\ UNCHANGED <<pairs, mode, out_folder, out_raw, fs0, jobi, temp_flat, temp_final,
                   final_out, successful, failed, terminal, status, steps, answer,
                   before>>
    /\ UNCHANGED <<pvars, ovars>>

Next ==
    \/ GuiFlattenCover \/ GuiCheckExists \/ GuiMerge \/ GuiFlattenFinal
    \/ GuiReplaceStep \/ GuiCleanup \/ GuiReport
    \/ CliFlattenCover \/ CliMerge \/ CliFlattenFinal \/ CliReplaceStep \/ CliFinish

Spec == Init /\ [][Next]_vars

(***************************************************************************)
(* SpecRun: a whole run, from the list of selected files to the end of the *)
(* batch: pair_cover_invoices(pdfs), then the loop over the pairs it       *)
(* returned                                                                *)
(***************************************************************************)
RunFiles ==
    { MkPath("d1", n) : n \in { NameCoverA, NameInvoiceA, NameCoverB, NameInvoiceB } }

\* the lists of distinct files of RunFiles
RunLists ==
    UNION { { l \in [1..n -> RunFiles] : \A i, j \in 1..n : i # j => l[i] # l[j] } :
            n \in 0..MaxRunLen }

InitRun ==
    /\ ppc = "loop"
    /\ pdfs \in RunLists
    /\ pdfs0 = pdfs
    /\ idx = 1
    /\ groups = <<>>
    /\ gorder = <<>>
    /\ pairs = <<>>
    /\ BatchOff
    /\ OthersOff

\* final_out / out_file of the pair with index j, for entry point m, output folder d
\* and output name raw
FinalFor(m, d, raw, j) ==
    IF Len(pairs) = 1 THEN MkPath(d, IF m = "gui" THEN GuiOutName(raw) ELSE raw)
    ELSE MkPath(d, MergedName(InvoiceAt(j)))

\* GUI lines 560-567, CLI lines 744-747: no pairs, the run ends with an error
RunNoPairs ==
    /\ ppc = "done" /\ mode = "off" /\ pairs = <<>>
    /\ \E m \in {"gui", "cli"} :
          /\ mode' = m
          /\ terminal' = IF m = "gui" THEN "error" ELSE terminal
          /\ exitcode' = IF m = "cli" THEN 1 ELSE exitcode
    /\ pc' = "end"
    /\ UNCHANGED <<pairs, out_folder, out_raw, fs, fs0, jobi, temp_flat, temp_final,
                   final_out, successful, failed, status, steps, answer, before,
                   undeleted>>
    /\ UNCHANGED <<pvars, ovars>>

\* GUI lines 569-578, CLI lines 749-752: the loop over the returned pairs begins, on
\* a file system that holds the selected files and, maybe, files at output paths
RunStart ==
    /\ ppc = "done" /\ mode = "off" /\ pairs # <<>>
    /\ \E m \in {"gui", "cli"} : \E d \in OutFolders :
          /\ mode' = m
          /\ out_folder' = d
          /\ out_raw' = NameOut
          /\ \E old \in SUBSET ({ FinalFor(m, d, NameOut, j) : j \in 0..(Len(pairs) - 1) }
                                    \ Range(pdfs)) :
                fs' = [p \in Range(pdfs) \cup old |->
                          IF p \in Range(pdfs) THEN Orig(p) ELSE Old(p)]
    /\ fs0' = fs'
    /\ pc' = "flatten_cover"
    /\ status' = [k \in 1..Len(pairs) |-> "pending"]
    /\ steps' = [k \in 1..Len(pairs) |-> <<>>]
    /\ answer' = [k \in 1..Len(pairs) |-> "none"]
    /\ before' = [k \in 1..Len(pairs) |-> None]
    /\ UNCHANGED <<pairs, jobi, temp_flat, temp_final, final_out, successful, failed,
                   terminal, exitcode, undeleted>>
    /\ UNCHANGED <<pvars, ovars>>

NextRun ==
    \/ PairLoop \/ PairCollect \/ RunNoPairs \/ RunStart
    \/ GuiFlattenCover \/ GuiCheckExists \/ GuiMerge \/ GuiFlattenFinal
    \/ GuiReplaceStep \/ GuiCleanup \/ GuiReport
    \/ CliFlattenCover \/ CliMerge \/ CliFlattenFinal \/ CliReplaceStep \/ CliFinish

SpecRun == InitRun /\ [][NextRun]_vars

(***************************************************************************)
(* SpecValid: is_valid_pdf(filepath) on every file of a bounded universe   *)
(***************************************************************************)
\* b'%PDF-'
PDF_MAGIC == <<"%", "P", "D", "F", "-">>

\* the argument of f.read(5)
HeaderLen == 5

\* the bytes files are made of: those of the magic and one other
Bytes == {"%", "P", "D", "F", "-", "1"}

\* the longest run of arbitrary bytes put before or after a part of the magic
MaxTail == 2

ByteSeqs(n) == UNION { [1..k -> Bytes] : k \in 0..n }

\* file contents: a prefix of the magic (none of it, a part, all of it) followed by
\* arbitrary bytes, and the whole magic preceded by arbitrary bytes
Contents ==
    { SubSeq(PDF_MAGIC, 1, k) \o t : k \in 0..Len(PDF_MAGIC), t \in ByteSeqs(MaxTail) }
        \cup { t \o PDF_MAGIC : t \in ByteSeqs(MaxTail) }

\* what can be at filepath: nothing, a file the process may not open, a directory,
\* a file whose read fails with an I/O error, a readable file
PathStates ==
    [kind : {"missing", "denied", "dir"}, bytes : {<<>>}]
        \cup [kind : {"ioerror", "file"}, bytes : Contents]

\* open(filepath, 'rb'): "ok", or the exception it raises
OpenRb(file) ==
    CASE file.kind = "missing" -> "FileNotFoundError"
      [] file.kind = "denied"  -> "PermissionError"
      [] file.kind = "dir"     -> "IsADirectoryError"
      [] OTHER                 -> "ok"

\* faulty variant: the whole file is read
ReadWhole(bytes, n) == bytes

\* f.read(n) on a file just opened: its first n bytes, fewer when it is shorter
ReadBytes(bytes, n) == SubSeq(bytes, 1, IF Len(bytes) < n THEN Len(bytes) ELSE n)

\* except Exception: the exceptions the handler catches
Caught(exc) ==
    exc \in {"FileNotFoundError", "PermissionError", "IsADirectoryError", "OSError"}

\* the call after exception exc was raised in the try block
IsValidRaised(exc) ==
    [iv EXCEPT !.pc = "done", !.ret = IF Caught(exc) THEN "False" ELSE "raised"]

InitValid ==
    /\ \E file \in PathStates :
          iv = [file |-> file, pc |-> "open", header |-> <<>>, ret |-> "running"]
    /\ mg = [pc |-> "off"]
    /\ PairOff /\ BatchOff /\ GuiOff /\ pairs = <<>>

\* line 142: with open(filepath, 'rb') as f
IsValidOpen ==
    /\ iv.pc = "open"
    /\ iv' = IF OpenRb(iv.file) = "ok" THEN [iv EXCEPT !.pc = "read"]
             ELSE IsValidRaised(OpenRb(iv.file))
    /\ UNCHANGED <<pvars, bvars, pairs, mg, gvars>>

\* line 143: header = f.read(5)
IsValidRead ==
    /\ iv.pc = "read"
    /\ iv' = IF iv.file.kind = "ioerror" THEN IsValidRaised("OSError")
             ELSE [iv EXCEPT !.pc = "compare",
                             !.header = ReadBytes(iv.file.bytes, HeaderLen)]
    /\ UNCHANGED <<pvars, bvars, pairs, mg, gvars>>

\* line 144: return header == b'%PDF-'
IsValidReturn ==
    /\ iv.pc = "compare"
    /\ iv' = [iv EXCEPT !.pc = "done",
                        !.ret = IF iv.header = PDF_MAGIC THEN "True" ELSE "False"]
    /\ UNCHANGED <<pvars, bvars, pairs, mg, gvars>>

NextValid == IsValidOpen \/ IsValidRead \/ IsValidReturn

SpecValid == InitValid /\ [][NextValid]_vars

(***************************************************************************)
(* SpecMerge: merge_pdfs(first, second, out_pdf) on bounded documents      *)
(***************************************************************************)
\* the longest document
MaxPages == 2

\* the pages documents are made of
PageSet == {"x", "y"}

\* a document PyPDF2 can read is the sequence of its pages; one it cannot read
\* (damaged, encrypted) is Unreadable; what a failed write leaves is Truncated
Unreadable == [pages |-> <<>>, state |-> "unreadable"]

Truncated == [pages |-> <<>>, state |-> "truncated"]

Doc(pages) == [pages |-> pages, state |-> "pdf"]

Docs == { Doc(p) : p \in UNION { [1..n -> PageSet] : n \in 0..MaxPages } }

MergePaths == {"p1", "p2", "p3"}

\* the file systems merge_pdfs is called on: any documents, readable or not, at any
\* of the paths
MergeSystems ==
    UNION { [S -> Docs \cup {Unreadable}] : S \in SUBSET MergePaths }

\* faulty variant: the page is put before the pages the writer holds
AddPageFront(w, page) == <<page>> \o w

\* writer.add_page(page)
AddPage(w, page) == Append(w, page)

\* the path the outer loop is at
MergeCurrent == IF mg.file = 1 THEN mg.first ELSE mg.second

InitMerge ==
    /\ \E f \in MergeSystems : \E a, b, o \in MergePaths :
          mg = [fs |-> f, fs0 |-> f, first |-> a, second |-> b, out |-> o,
                pc |-> "exists", file |-> 1, page |-> 1, reader |-> <<>>,
                writer |-> <<>>, ret |-> "running"]
    /\ iv = [pc |-> "off"]
    /\ PairOff /\ BatchOff /\ GuiOff /\ pairs = <<>>

\* lines 151-154: both inputs must exist; the writer is created empty
MergeExists ==
    /\ mg.pc = "exists"
    /\ mg' = IF ~Exists(mg.fs, mg.first) \/ ~Exists(mg.fs, mg.second)
             THEN [mg EXCEPT !.pc = "done", !.ret = "FileNotFoundError"]
             ELSE [mg EXCEPT !.pc = "reader", !.writer = <<>>]
    /\ UNCHANGED <<pvars, bvars, pairs, iv, gvars>>

\* lines 156-158, 161-162: the next path of (first, second) is opened by PdfReader,
\* which holds the pages of the document; a document it cannot read raises
MergeReader ==
    /\ mg.pc = "reader"
    /\ mg' = IF mg.file > 2 THEN [mg EXCEPT !.pc = "write"]
             ELSE IF mg.fs[MergeCurrent].state # "pdf"
                  THEN [mg EXCEPT !.pc = "done", !.ret = "RuntimeError"]
                  ELSE [mg EXCEPT !.pc = "pages", !.page = 1,
                                  !.reader = mg.fs[MergeCurrent].pages]
    /\ UNCHANGED <<pvars, bvars, pairs, iv, gvars>>

\* lines 159-160: one iteration of  for page in reader.pages
MergePage ==
    /\ mg.pc = "pages"
    /\ mg' = IF mg.page > Len(mg.reader)
             THEN [mg EXCEPT !.pc = "reader", !.file = @ + 1]
             ELSE [mg EXCEPT !.writer = AddPage(@, mg.reader[mg.page]), !.page = @ + 1]
    /\ UNCHANGED <<pvars, bvars, pairs, iv, gvars>>

\* lines 164-168: out_pdf is opened "wb" and the writer is written to it; when that
\* fails out_pdf is left truncated, or as it was when it could not be opened
MergeWrite ==
    /\ mg.pc = "write"
    /\ \/ mg' = [mg EXCEPT !.pc = "done", !.ret = "None",
                           !.fs = Write(@, mg.out, Doc(mg.writer))]
       \/ mg' = [mg EXCEPT !.pc = "done", !.ret = "RuntimeError",
                           !.fs = Write(@, mg.out, Truncated)]
       \/ mg' = [mg EXCEPT !.pc = "done", !.ret = "RuntimeError"]
    /\ UNCHANGED <<pvars, bvars, pairs, iv, gvars>>

NextMerge == MergeExists \/ MergeReader \/ MergePage \/ MergeWrite

SpecMerge == InitMerge /\ [][NextMerge]_vars

(***************************************************************************)
(* SpecGui: the window. The UI thread runs the handlers _start, _add_items, *)
(* _remove_file, _clear and _check_queue; the worker thread that _start    *)
(* starts runs _process_thread and talks to the UI thread through self.q.  *)
(* Of a Job's steps this specification keeps the events they put and how   *)
(* they end; what they do to the files is the matter of Spec.              *)
(***************************************************************************)
\* the most changes of the selected-file list in one behaviour
MaxEdits == 1

\* the events that end a run
TerminalEvents == {"success", "error"}

\* the variables of the UI thread
uivars == <<selected_files, processing, enabled, polls, upc, edits, seen, busy_hit>>

\* the variables of this module the window does not use
guirest == <<ppc, idx, groups, gorder, mode, out_folder, out_raw, fs, fs0, pc,
             temp_flat, temp_final, final_out, exitcode, answer, before, undeleted,
             fvars>>

\* the files the user selects, in the order of selection
GuiList ==
    << MkPath("d1", NameCoverA), MkPath("d1", NameInvoiceA),
       MkPath("d1", NameCoverB), MkPath("d1", NameInvoiceB) >>

\* the selected-file lists the window is left with before Begin Processing is
\* first requested
GuiLists == { SubSeq(GuiList, 1, n) : n \in 0..Len(GuiList) }

InitGui ==
    /\ selected_files \in GuiLists
    /\ processing = FALSE /\ enabled = TRUE /\ eventq = <<>> /\ polls = 0
    /\ upc = "idle" /\ wpc = "idle" /\ wi = 0 /\ live = 0
    /\ gs_ok \in BOOLEAN
    /\ edits = 0 /\ sent = <<>> /\ seen = <<>> /\ busy_hit = FALSE
    /\ ppc = "off" /\ pdfs = <<>> /\ pdfs0 = <<>> /\ idx = 0 /\ groups = <<>>
    /\ gorder = <<>> /\ pairs = <<>>
    /\ BatchOff /\ FnOff

\* faulty variant: _start does not look at self.processing
BusyNever == FALSE

\* line 517: if self.processing
Busy == processing

\* lines 517-518: Begin Processing while a batch runs: _start returns at once
StartBusy ==
    /\ upc = "idle"
    /\ Busy
    /\ busy_hit' = TRUE
    /\ UNCHANGED <<selected_files, processing, enabled, polls, upc, edits, seen, eventq,
                   wpc, wi, live, gs_ok, sent, pdfs, pdfs0, pairs, jobi, successful,
                   failed, status, steps, terminal>>
    /\ UNCHANGED guirest

\* lines 520-542: _start returns after a message box: fewer than two files are
\* selected, the output name is empty or the output folder does not exist
StartRefused ==
    /\ upc = "idle"
    /\ ~Busy
    /\ \E name_ok, folder_ok \in BOOLEAN :
          Len(selected_files) < 2 \/ ~name_ok \/ ~folder_ok
    /\ UNCHANGED vars

\* lines 544-550: _start accepts: processing is set, the controls are disabled, the
\* worker thread is started and _check_queue is scheduled
StartAccepted ==
    /\ upc = "idle"
    /\ ~Busy
    /\ Len(selected_files) >= 2
    /\ processing' = TRUE
    /\ enabled' = FALSE
    /\ live' = live + 1
    /\ wpc' = "begin"
    /\ polls' = polls + 1
    /\ pdfs0' = selected_files
    /\ pdfs' = <<>> /\ wi' = 0 /\ pairs' = <<>> /\ jobi' = 0
    /\ successful' = 0 /\ failed' = 0 /\ status' = <<>> /\ steps' = <<>>
    /\ terminal' = None
    /\ sent' = <<>> /\ seen' = <<>>
    /\ UNCHANGED <<selected_files, eventq, upc, gs_ok, edits, busy_hit>>
    /\ UNCHANGED guirest

\* lines 415-441: _add_items (a drop, a browse) appends a valid PDF that is not in
\* the list; the drop zone is never disabled
AddItems ==
    /\ upc = "idle"
    /\ edits < MaxEdits
    /\ \E f \in Range(GuiList) \ Range(selected_files) :
          selected_files' = Append(selected_files, f)
    /\ edits' = edits + 1
    /\ UNCHANGED <<processing, enabled, polls, upc, seen, busy_hit, eventq, wpc, wi, live, gs_ok,
                   sent, pdfs, pdfs0, pairs, jobi, successful, failed, status, steps,
                   terminal>>
    /\ UNCHANGED guirest

\* lines 483-487: the x button of a row, never disabled either
RemoveFile ==
    /\ upc = "idle"
    /\ edits < MaxEdits
    /\ \E n \in 1..Len(selected_files) :
          selected_files' = SubSeq(selected_files, 1, n - 1)
                                \o SubSeq(selected_files, n + 1, Len(selected_files))
    /\ edits' = edits + 1
    /\ UNCHANGED <<processing, enabled, polls, upc, seen, busy_hit, eventq, wpc, wi, live, gs_ok,
                   sent, pdfs, pdfs0, pairs, jobi, successful, failed, status, steps,
                   terminal>>
    /\ UNCHANGED guirest

\* lines 507-510: the Clear button, which _update_ui_state disables during a run
Clear ==
    /\ upc = "idle"
    /\ enabled
    /\ edits < MaxEdits
    /\ selected_files # <<>>
    /\ selected_files' = <<>>
    /\ edits' = edits + 1
    /\ UNCHANGED <<processing, enabled, polls, upc, seen, busy_hit, eventq, wpc, wi, live, gs_ok,
                   sent, pdfs, pdfs0, pairs, jobi, successful, failed, status, steps,
                   terminal>>
    /\ UNCHANGED guirest

\* a call of _check_queue that after() scheduled begins
CheckQueueEnter ==
    /\ upc = "idle"
    /\ polls > 0
    /\ polls' = polls - 1
    /\ upc' = "drain"
    /\ UNCHANGED <<selected_files, processing, enabled, edits, seen, busy_hit, eventq, wpc, wi,
                   live, gs_ok, sent, pdfs, pdfs0, pairs, jobi, successful, failed,
                   status, steps, terminal>>
    /\ UNCHANGED guirest

\* lines 657-673: one turn of the loop: get_nowait() returns an event; a terminal
\* event enables the controls and clears processing
CheckQueueGet ==
    /\ upc = "drain"
    /\ eventq # <<>>
    /\ eventq' = Tail(eventq)
    /\ seen' = Append(seen, Head(eventq))
    /\ enabled' = IF Head(eventq) \in TerminalEvents THEN TRUE ELSE enabled
    /\ processing' = IF Head(eventq) \in TerminalEvents THEN FALSE ELSE processing
    /\ UNCHANGED <<selected_files, polls, upc, edits, busy_hit, wpc, wi, live, gs_ok, sent, pdfs,
                   pdfs0, pairs, jobi, successful, failed, status, steps, terminal>>
    /\ UNCHANGED guirest

\* lines 675-679: get_nowait() raises Empty: the loop ends, and _check_queue is
\* scheduled again while processing is set
CheckQueueEmpty ==
    /\ upc = "drain"
    /\ eventq = <<>>
    /\ polls' = IF processing THEN polls + 1 ELSE polls
    /\ upc' = "idle"
    /\ UNCHANGED <<selected_files, processing, enabled, edits, seen, busy_hit, eventq, wpc, wi,
                   live, gs_ok, sent, pdfs, pdfs0, pairs, jobi, successful, failed,
                   status, steps, terminal>>
    /\ UNCHANGED guirest

\* self.q.put(...) for each of events, in order
Put(events) ==
    /\ eventq' = eventq \o events
    /\ sent' = sent \o events

\* the worker thread returns after it put the terminal event kind
WorkerEnds(kind) ==
    /\ terminal' = kind
    /\ wpc' = "end"
    /\ live' = live - 1

\* the end of an iteration of the loop over the pairs
JobAdvance ==
    /\ jobi' = jobi + 1
    /\ wpc' = IF jobi + 1 < Len(pairs) THEN "job" ELSE "report"

\* lines 627-629: the handler of a Job's try, after the events  before  were put
JobFailed(events, step) ==
    /\ Put(events \o <<"log">>)
    /\ failed' = failed + 1
    /\ status' = Mark(status, jobi, "failed")
    /\ steps' = Did(jobi, step, FALSE)
    /\ JobAdvance
    /\ UNCHANGED successful

\* a step of a Job succeeded after the events  events  were put
JobStepDone(events, step, next) ==
    /\ Put(events)
    /\ steps' = Did(jobi, step, TRUE)
    /\ wpc' = next
    /\ UNCHANGED <<jobi, successful, failed, status>>

\* lines 554-555
WorkerBegin ==
    /\ wpc = "begin"
    /\ Put(<<"progress", "status">>)
    /\ wpc' = "read"
    /\ UNCHANGED <<wi, live, pdfs, pdfs0, pairs, jobi, successful, failed, status, steps,
                   terminal>>
    /\ UNCHANGED <<uivars, gs_ok, guirest>>

\* line 557: one turn of the comprehension  [Path(f) for f in self.selected_files],
\* which reads the list the UI thread owns
WorkerReadFile ==
    /\ wpc = "read"
    /\ IF wi < Len(selected_files)
       THEN /\ pdfs' = Append(pdfs, selected_files[wi + 1])
            /\ wi' = wi + 1
            /\ UNCHANGED wpc
       ELSE /\ wpc' = "pair"
            /\ UNCHANGED <<pdfs, wi>>
    /\ UNCHANGED <<eventq, sent, live, pdfs0, pairs, jobi, successful, failed, status,
                   steps, terminal>>
    /\ UNCHANGED <<uivars, gs_ok, guirest>>

\* lines 558-569: pair_cover_invoices(pdfs); without pairs the error event and return
WorkerPair ==
    /\ wpc = "pair"
    /\ pairs' = PairAll(pdfs)
    /\ IF PairAll(pdfs) = <<>>
       THEN /\ Put(<<"error">>)
            /\ WorkerEnds("error")
       ELSE /\ Put(<<"log">>)
            /\ wpc' = "setup"
            /\ UNCHANGED <<live, terminal>>
    /\ UNCHANGED <<wi, pdfs, pdfs0, jobi, successful, failed, status, steps>>
    /\ UNCHANGED <<uivars, gs_ok, guirest>>

\* lines 572-578: the output folder and name are read from the Tk variables and the
\* counters are set; lines 652-653: an exception here (Tk called from a thread that
\* is not the main one) ends the run with the error event
WorkerSetup ==
    /\ wpc = "setup"
    /\ \/ /\ wpc' = "job"
          /\ status' = [k \in 1..Len(pairs) |-> "pending"]
          /\ steps' = [k \in 1..Len(pairs) |-> <<>>]
          /\ UNCHANGED <<eventq, sent, live, terminal>>
       \/ /\ Put(<<"error">>)
          /\ WorkerEnds("error")
          /\ UNCHANGED <<status, steps>>
    /\ UNCHANGED <<wi, pdfs, pdfs0, pairs, jobi, successful, failed>>
    /\ UNCHANGED <<uivars, gs_ok, guirest>>

\* lines 581-591: the Job begins; gs_flatten(cover, temp_flat), which raises when
\* Ghostscript cannot be run or fails
WorkerFlattenCover ==
    /\ wpc = "job"
    /\ \/ /\ gs_ok
          /\ JobStepDone(<<"progress", "status", "log">>, "flatten_cover", "check")
       \/ JobFailed(<<"progress", "status", "log">>, "flatten_cover")
    /\ UNCHANGED <<wi, live, pdfs, pdfs0, pairs, terminal>>
    /\ UNCHANGED <<uivars, gs_ok, guirest>>

\* lines 593-608: final_out; when it exists and the answer is no, the Job is skipped
WorkerCheckExists ==
    /\ wpc = "check"
    /\ \/ /\ wpc' = "merge"
          /\ UNCHANGED <<eventq, sent, jobi, status>>
       \/ /\ Put(<<"log">>)
          /\ status' = Mark(status, jobi, "skipped")
          /\ JobAdvance
    /\ UNCHANGED <<wi, live, pdfs, pdfs0, pairs, successful, failed, steps, terminal>>
    /\ UNCHANGED <<uivars, gs_ok, guirest>>

\* lines 610-612: merge_pdfs(temp_flat, invoice, final_out)
WorkerMerge ==
    /\ wpc = "merge"
    /\ \/ JobStepDone(<<"log">>, "merge", "flatten_final")
       \/ JobFailed(<<"log">>, "merge")
    /\ UNCHANGED <<wi, live, pdfs, pdfs0, pairs, terminal>>
    /\ UNCHANGED <<uivars, gs_ok, guirest>>

\* lines 614-617: gs_flatten(final_out, temp_final)
WorkerFlattenFinal ==
    /\ wpc = "flatten_final"
    /\ \/ /\ gs_ok
          /\ JobStepDone(<<"log">>, "flatten_final", "replace")
       \/ JobFailed(<<"log">>, "flatten_final")
    /\ UNCHANGED <<wi, live, pdfs, pdfs0, pairs, terminal>>
    /\ UNCHANGED <<uivars, gs_ok, guirest>>

\* lines 619-625: the replace step, then the log event and successful += 1
WorkerReplace ==
    /\ wpc = "replace"
    /\ \/ /\ Put(<<"log">>)
          /\ successful' = successful + 1
          /\ status' = Mark(status, jobi, "done")
          /\ steps' = Did(jobi, "replace", TRUE)
          /\ JobAdvance
          /\ UNCHANGED failed
       \/ JobFailed(<<>>, "replace")
    /\ UNCHANGED <<wi, live, pdfs, pdfs0, pairs, terminal>>
    /\ UNCHANGED <<uivars, gs_ok, guirest>>

\* faulty variant: the terminal event is put before the status event
ReportEventsEarly(n) == <<"progress", IF n > 0 THEN "success" ELSE "error", "status">>

\* lines 640-650: the events put after the loop, n pairs having been processed
ReportEvents(n) == <<"progress", "status", IF n > 0 THEN "success" ELSE "error">>

\* lines 640-650: the progress event, the status event and the terminal event
WorkerReport ==
    /\ wpc = "report"
    /\ Put(ReportEvents(successful))
    /\ WorkerEnds(IF successful > 0 THEN "success" ELSE "error")
    /\ UNCHANGED <<wi, pdfs, pdfs0, pairs, jobi, successful, failed, status, steps>>
    /\ UNCHANGED <<uivars, gs_ok, guirest>>

NextGui ==
    \/ StartBusy \/ StartRefused \/ StartAccepted
    \/ AddItems \/ RemoveFile \/ Clear
    \/ CheckQueueEnter \/ CheckQueueGet \/ CheckQueueEmpty
    \/ WorkerBegin \/ WorkerReadFile \/ WorkerPair \/ WorkerSetup
    \/ WorkerFlattenCover \/ WorkerCheckExists \/ WorkerMerge \/ WorkerFlattenFinal
    \/ WorkerReplace \/ WorkerReport

SpecGui == InitGui /\ [][NextGui]_vars

\* the Tk main loop runs every scheduled callback, and a callback that runs goes on
SpecGuiFair ==
    /\ SpecGui
    /\ WF_vars(CheckQueueEnter) /\ WF_vars(CheckQueueGet) /\ WF_vars(CheckQueueEmpty)

(***************************************************************************)
(* Vocabulary of the properties                                            *)
(***************************************************************************)
JobIds == 1..Len(pairs)

TerminalStates == {"done", "failed", "skipped"}

\* the run has ended: the GUI worker put its terminal event, the CLI process exited
RunOver == pc = "end"

\* Job k (counted from 1) has left its iteration, clean-up included
JobOver(k) == status[k] \in TerminalStates /\ (k <= jobi \/ RunOver)

\* the temporary paths of Job k
TempFlatOf(k) == TempFlatAt(k - 1)

FinalOf(k) == FinalOutOf(k - 1)

TempFinalOf(k) ==
    IF mode = "gui" THEN GuiTempFinal(FinalOf(k), k - 1) ELSE CliTempFinal(FinalOf(k))

TempsOf(k) == {TempFlatOf(k), TempFinalOf(k)}

\* the output name is not the name the Job gives its own flattened cover
OwnTempAsOutput(k) == FinalOf(k) = TempFlatOf(k)

StepOrder == <<"flatten_cover", "merge", "flatten_final", "replace">>

StepNames(k) == [n \in 1..Len(steps[k]) |-> steps[k][n][1]]

IsPrefix(s, t) == Len(s) <= Len(t) /\ SubSeq(t, 1, Len(s)) = s

\* Job k invoked this step and it succeeded / failed
Succeeded(k, step) == \E n \in 1..Len(steps[k]) : steps[k][n] = <<step, TRUE>>

Failed(k, step) == \E n \in 1..Len(steps[k]) : steps[k][n] = <<step, FALSE>>

\* no step of any Job has failed so far
NoStepFailed == \A k \in JobIds : \A n \in 1..Len(steps[k]) : steps[k][n][2]

\* the file at path p is an unflattened merge result
IsMerged(f, p) == Exists(f, p) /\ f[p][1] = "merged"

(***************************************************************************)
(* C1..C8: the batch pipeline (Spec)                                       *)
(***************************************************************************)
\* C1 (as claimed): when the run has ended, every pair the pairing engine emitted is
\* in a terminal state (done, failed or skipped), whichever entry point ran it and
\* whichever steps failed.
C1_EveryPairReachesTerminal ==
    RunOver => \A k \in JobIds : status[k] \in TerminalStates

\* C2 (as claimed): when the run has ended, no temporary file that a terminated Job
\* created exists any more. Stated for the exit path on which every Job is done, for
\* the deletions that did not fail and for temporary paths that were free when the
\* run began and are not the Job's own output path, so that no failure of a step or
\* of the environment is needed to break it.
C2_NoTempFileLeft ==
    (RunOver /\ undeleted = {} /\ \A k \in JobIds : status[k] = "done") =>
        \A k \in JobIds : \A t \in TempsOf(k) :
            (~Exists(fs0, t) /\ t # FinalOf(k)) => ~Exists(fs, t)

\* C3: the steps a Job invokes are a prefix of flatten-cover, merge, flatten-final,
\* replace, each invoked only after the one before it succeeded; a Job is done
\* exactly when all four succeeded, failed exactly when the step it invoked last
\* failed (so no step follows a failure), skipped only after the flatten of the
\* cover, on a "no" to the confirmation that precedes merge, and a Job that has not
\* begun has invoked nothing.
C3_StepsInFixedOrder ==
    \A k \in JobIds :
        LET s == steps[k]
            n == Len(s)
        IN  /\ IsPrefix(StepNames(k), StepOrder)
            /\ \A m \in 1..(n - 1) : s[m][2]
            /\ (status[k] = "done") <=> (n = 4 /\ s[4][2])
            /\ (status[k] = "failed") <=> (n >= 1 /\ ~s[n][2])
            /\ (status[k] = "skipped") =>
                   (s = <<(<<"flatten_cover", TRUE>>)>> /\ answer[k] = "no" /\ mode = "gui")
            /\ (status[k] = "pending" /\ n > 0) => (k = jobi + 1 /\ ~RunOver)

\* C3, witness: a batch has ended with one Job done after all four steps and another
\* skipped at the confirmation.
C3_Witness ==
    /\ RunOver
    /\ \E k \in JobIds : status[k] = "done" /\ StepNames(k) = StepOrder
    /\ \E k \in JobIds : status[k] = "skipped"

\* C4 (as claimed): a file that was at a Job's final output path when the Job began
\* is still there unchanged unless the confirmation was asked for it and answered
\* yes. Stated for output paths other than the Job's own temporary path and for
\* the runs in which no step has failed.
C4_NoOverwriteWithoutYes ==
    \A k \in JobIds :
        (before[k] # None /\ answer[k] # "yes" /\ ~OwnTempAsOutput(k) /\ NoStepFailed)
            => AtPath(fs, FinalOf(k)) = before[k]

\* C5 (as claimed): after a "no" to the confirmation the Job is skipped, neither
\* merge nor the final flatten was invoked, the Job is in neither counter, and a
\* file that was at the final path when the Job began is still there, unchanged,
\* when the Job is over.
C5_NoLeavesFileAndSkips ==
    \A k \in JobIds :
        answer[k] = "no" =>
            /\ status[k] = "skipped"
            /\ StepNames(k) = <<"flatten_cover">>
            /\ (JobOver(k) /\ before[k] # None) => AtPath(fs, FinalOf(k)) = before[k]
            /\ successful = Cardinality({ j \in JobIds : status[j] = "done" })
            /\ failed = Cardinality({ j \in JobIds : status[j] = "failed" })

\* C6 (as claimed): every input file exists with its original content, in every
\* state of every run. Stated for the runs in which no step has failed.
C6_InputsNeverMutated ==
    NoStepFailed => \A p \in Inputs : AtPath(fs, p) = Orig(p)

\* C7 (as claimed): a Job that failed after its merge succeeded has the unflattened
\* merged file at its output path. Stated for output paths other than the Job's own
\* temporary path.
C7_MergedFileSurvivesFailure ==
    \A k \in JobIds :
        (status[k] = "failed" /\ Succeeded(k, "merge") /\ ~OwnTempAsOutput(k))
            => IsMerged(fs, FinalOf(k))

Bucket(key) == { pdfs[n] : n \in { m \in 1..Len(pdfs) : KeyOf(pdfs[m]) = key } }

CoverRole(key) == { f \in Bucket(key) : HasCoverKw(f) }

InvoiceRole(key) == { f \in Bucket(key) : HasInvoiceKw(f) }

InputKeys == { KeyOf(pdfs[n]) : n \in 1..Len(pdfs) }

\* the positions of the returned list whose pair belongs to the bucket of key
PairsOfKey(key) ==
    { n \in 1..Len(pairs) : KeyOf(pairs[n][1]) = key \/ KeyOf(pairs[n][2]) = key }

\* the first position of file f in the input list
FirstAt(f) == CHOOSE n \in 1..Len(pdfs) : pdfs[n] = f /\ \A m \in 1..(n - 1) : pdfs[m] # f

\* C9: for every input list (hence for every permutation of one), a grouping key
\* whose bucket holds exactly one file with the cover keyword and exactly one,
\* other, file with the invoice keyword gets exactly one pair in the result, and
\* that pair is (cover, invoice).
C9_OnePairPerMatchedKey ==
    ppc = "done" =>
        \A key \in InputKeys : \A c \in CoverRole(key) : \A v \in InvoiceRole(key) :
            (CoverRole(key) = {c} /\ InvoiceRole(key) = {v} /\ c # v)
                => /\ Cardinality(PairsOfKey(key)) = 1
                   /\ \A n \in PairsOfKey(key) : pairs[n] = <<c, v>>

\* C9, witness: the engine returned, for a list of three files in which the invoice
\* of a matched key comes before its cover and a file of another key lies between
\* them.
C9_Witness ==
    /\ ppc = "done" /\ Len(pdfs) = 3
    /\ \E key \in InputKeys : \E c \in CoverRole(key) : \E v \in InvoiceRole(key) :
          /\ CoverRole(key) = {c} /\ InvoiceRole(key) = {v} /\ c # v
          /\ FirstAt(v) = 1 /\ FirstAt(c) = 3
          /\ \E n \in 1..Len(pairs) : pairs[n] = <<c, v>>

\* C10 (as claimed): a pair is emitted only for a bucket that holds exactly one
\* cover-role and exactly one invoice-role candidate. Stated for buckets without a
\* file that holds both keywords.
C10_NoPairFromAmbiguousBucket ==
    ppc = "done" =>
        \A n \in 1..Len(pairs) :
            LET key == KeyOf(pairs[n][1])
            IN  (\A f \in Bucket(key) : ~(HasCoverKw(f) /\ HasInvoiceKw(f)))
                    => /\ Cardinality(CoverRole(key)) = 1
                       /\ Cardinality(InvoiceRole(key)) = 1

(***************************************************************************)
(* C11, C13: the pairing engine (SpecPair)                                 *)
(***************************************************************************)
\* C11 (as claimed): in every pair the engine returns, the cover and the invoice are
\* different paths, whatever the input list.
C11_PairHasDistinctPaths ==
    ppc = "done" => \A n \in 1..Len(pairs) : pairs[n][1] # pairs[n][2]

\* C13: the cover of a returned pair is a file of the input that holds the cover
\* keyword, its invoice a file of the same bucket that holds the invoice keyword; a
\* bucket that lacks one of the two roles has no pair in the result; and an input
\* in which no bucket has both roles (the empty list, a list of files without
\* keyword, a list of cover sheets only) returns the empty list.
C13_PairNeedsBothRoles ==
    ppc = "done" =>
        /\ \A n \in 1..Len(pairs) :
               LET key == KeyOf(pairs[n][1])
               IN  /\ pairs[n][1] \in CoverRole(key)
                   /\ pairs[n][2] \in InvoiceRole(key)
        /\ \A key \in InputKeys :
               (CoverRole(key) = {} \/ InvoiceRole(key) = {}) => PairsOfKey(key) = {}
        /\ (\A key \in InputKeys : CoverRole(key) = {} \/ InvoiceRole(key) = {})
               => pairs = <<>>

\* C13, witness: the engine returned the empty list for three files of one bucket,
\* two with the cover keyword and one with no keyword.
C13_Witness ==
    /\ ppc = "done" /\ Len(pdfs) = 3 /\ pairs = <<>>
    /\ \E key \in InputKeys :
          /\ Cardinality(CoverRole(key)) = 2 /\ InvoiceRole(key) = {}
          /\ Cardinality(Bucket(key)) = 3

(***************************************************************************)
(* C12, C14: the pairing engine on a changed list (SpecVary)               *)
(***************************************************************************)
\* the file that took the place of file p of the original list
Renamed(p) == pdfs[CHOOSE n \in 1..Len(pdfs0) : pdfs0[n] = p]

\* the caller changed a file name / added a file before the engine ran
NameChanged == Len(pdfs) = Len(pdfs0) /\ pdfs # pdfs0

FileAdded == Len(pdfs) = Len(pdfs0) + 1

\* C12 (as claimed): when the case of a letter of the non-keyword part of one cover
\* or invoice file name is changed, or a separator ("-", "_", space) is inserted
\* in, removed from or exchanged in that part, the engine returns the same set of
\* pairs as for the original list (the changed file standing for the original).
\* Stated for the lists in which no file is paired with itself.
C12_PairsIgnoreCaseAndSeparators ==
    (ppc = "done" /\ NameChanged /\ \A q \in Range(pairs) : q[1] # q[2]) =>
        Range(pairs) = { <<Renamed(q[1]), Renamed(q[2])>> : q \in Range(PairAll(pdfs0)) }

\* the files of the list handed to the engine that hold neither keyword
Unmatched == { f \in Range(pdfs) : ~HasCoverKw(f) /\ ~HasInvoiceKw(f) }

\* C14 (as claimed): a file whose stem holds neither keyword is in no returned pair,
\* and the engine returns for the list with such a file added, at whatever
\* position, the very sequence of pairs it returns for the list without it.
C14_UnmatchedFileChangesNothing ==
    (ppc = "done" /\ FileAdded) =>
        /\ \A f \in Unmatched : \A q \in Range(pairs) : f # q[1] /\ f # q[2]
        /\ pairs = PairAll(pdfs0)

\* C14 (amended): a file whose stem holds neither keyword is in no returned pair,
\* and the engine returns for the list with such a file added, at whatever
\* position, the same pairs, each once, as for the list without it; their order
\* may differ.
C14_UnmatchedFileKeepsPairSet ==
    (ppc = "done" /\ FileAdded) =>
        /\ \A f \in Unmatched : \A q \in Range(pairs) : f # q[1] /\ f # q[2]
        /\ Range(pairs) = Range(PairAll(pdfs0))
        /\ Len(pairs) = Len(PairAll(pdfs0))

\* C14, witness: the engine returned two pairs for a list to which a file without
\* keyword was added, in another order than for the list without that file.
C14_Witness ==
    /\ ppc = "done" /\ FileAdded /\ Unmatched # {}
    /\ Len(pairs) = 2
    /\ pairs # PairAll(pdfs0)

(***************************************************************************)
(* C15, C17: a whole run (SpecRun)                                         *)
(***************************************************************************)
\* the position of the input list at which grouping key  key  was first seen
FirstSeen(key) ==
    CHOOSE n \in 1..Len(pdfs) :
        KeyOf(pdfs[n]) = key /\ \A m \in 1..(n - 1) : KeyOf(pdfs[m]) # key

\* the position of the input list at which the pair at position n of the returned
\* list was complete
CompleteAt(n) ==
    CHOOSE m \in 1..Len(pdfs) :
        /\ pdfs[m] \in {pairs[n][1], pairs[n][2]}
        /\ \A r \in 1..Len(pdfs) : pdfs[r] \in {pairs[n][1], pairs[n][2]} => r <= m

\* Job k has begun
Begun(k) == steps[k] # <<>>

OutputOf(k) == Flat(Merged(Flat(Orig(CoverAt(k - 1))), Orig(InvoiceAt(k - 1))))

\* C17: the MERGED_<invoice-stem> names of the returned pairs are pairwise distinct;
\* in a batch of more than one pair no two Jobs have the same final output path,
\* and the output of a Job that is done stays at its path, as the Job left it,
\* while the other Jobs run.
C17_OutputPathsDistinct ==
    (ppc = "done" /\ Len(pairs) > 1) =>
        /\ \A j, k \in 1..Len(pairs) :
               j # k => MergedName(pairs[j][2]) # MergedName(pairs[k][2])
        /\ mode # "off" =>
               /\ \A j, k \in JobIds : j # k => FinalOf(j) # FinalOf(k)
               /\ \A k \in JobIds :
                      status[k] = "done" => AtPath(fs, FinalOf(k)) = OutputOf(k)

\* C17, witness: a batch of two Jobs has ended with both Jobs done and both outputs
\* in place.
C17_Witness ==
    /\ RunOver /\ Len(pairs) = 2
    /\ \A k \in JobIds : status[k] = "done" /\ AtPath(fs, FinalOf(k)) = OutputOf(k)

(***************************************************************************)
(* C16, C18..C20: the batch pipeline (Spec)                                *)
(***************************************************************************)
\* the temporary paths Job k has computed so far
TempsComputed(k) ==
    (IF Begun(k) THEN {TempFlatOf(k)} ELSE {})
    \cup (IF Succeeded(k, "merge") THEN {TempFinalOf(k)} ELSE {})

\* C16 (as claimed): a temporary path a Job has computed is the path of no file that
\* existed when the run began and of no temporary file of another Job. Stated for
\* output paths other than the Job's own temporary path and for the runs in which
\* no step has failed.
C16_TempPathsNeverCollide ==
    \A k \in JobIds :
        (~OwnTempAsOutput(k) /\ NoStepFailed) =>
            /\ \A t \in TempsComputed(k) : ~Exists(fs0, t)
            /\ \A j \in JobIds \ {k} : TempsComputed(j) \cap TempsComputed(k) = {}

\* the path at which a file named as the caller supplied it would lie
CallerPath == MkPath(out_folder, out_raw)

\* the caller-supplied name as the GUI worker reads it
CallerPathGui == MkPath(out_folder, GuiOutName(out_raw))

\* the output path of Job k derived from its invoice
DerivedPath(k) ==
    MkPath(out_folder, MERGED_PREFIX \o StemOf(pairs[k][2].name) \o PdfExt)

\* Job k is the Job of the current iteration and its output path has been computed
OutputPathSet(k) ==
    /\ k = jobi + 1
    /\ pc \in {"flatten_final", "replace"} \/ (mode = "gui" /\ pc = "merge")

\* C18 (as claimed): in a batch of one pair the Job's output path is the
\* caller-supplied name in the output folder; in a batch of more pairs the output
\* path of every Job is MERGED_<invoice-stem>.pdf in the output folder. Stated for
\* the runs in which no step has failed.
C18_OutputNamingRule ==
    \A k \in JobIds :
        (OutputPathSet(k) /\ NoStepFailed) =>
            final_out = IF Len(pairs) = 1 THEN CallerPath ELSE DerivedPath(k)

\* C18 (amended): in a batch of one pair the Job's output path is, under the CLI,
\* the caller-supplied path as it stands and, under the GUI worker, the
\* caller-supplied name, stripped of the whitespace around it and with ".pdf"
\* appended unless it ends with ".pdf", in the output folder; in a batch of more
\* pairs the output path of every Job is MERGED_<invoice-stem>.pdf in the output
\* folder, and nothing is written at the caller-supplied name. The document of a
\* Job that is done lies at that path (unless that path is the Job's own temporary
\* path).
C18_OutputNamingAmended ==
    \A k \in JobIds :
        LET expected == IF Len(pairs) > 1 THEN DerivedPath(k)
                        ELSE IF mode = "gui" THEN CallerPathGui ELSE CallerPath
        IN  /\ OutputPathSet(k) => final_out = expected
            /\ (status[k] = "done" /\ ~OwnTempAsOutput(k))
                   => AtPath(fs, expected) = OutputOf(k)
            /\ Len(pairs) > 1 =>
                   /\ AtPath(fs, CallerPath) = AtPath(fs0, CallerPath)
                   /\ AtPath(fs, CallerPathGui) = AtPath(fs0, CallerPathGui)

\* C18, witness: the GUI worker has ended a batch of one pair whose output name was
\* typed with a space before it and without suffix, and the document lies at
\* out.pdf in the output folder.
C18_Witness ==
    /\ mode = "gui" /\ RunOver /\ Len(pairs) = 1
    /\ out_raw = NameOutPadded
    /\ status[1] = "done"
    /\ AtPath(fs, MkPath(out_folder, NameOut \o PdfExt)) = OutputOf(1)

\* the number of Jobs in state st
Count(st) == Cardinality({ k \in JobIds : status[k] = st })

\* the counts the GUI worker's closing messages carry: the status line and the
\* success event name the pairs processed, the status line also the failed ones
\* when there are any; the messages of the other branch carry no count
Report ==
    IF successful > 0
    THEN IF failed > 0 THEN [succeeded |-> successful, failed |-> failed]
         ELSE [succeeded |-> successful]
    ELSE <<>>

\* C19 (as claimed): when the GUI worker's batch has ended every Job is terminal and
\* the report carries the number of Jobs done, the number failed when there are any
\* and the number skipped, which add up to the number of pairs. Stated for the
\* batches in which no step failed, a Job was done and a Job was skipped.
C19_ReportCounts ==
    (mode = "gui" /\ RunOver /\ NoStepFailed /\ Count("done") > 0 /\ Count("skipped") > 0)
        => /\ \A k \in JobIds : status[k] \in TerminalStates
           /\ "succeeded" \in DOMAIN Report /\ Report.succeeded = Count("done")
           /\ Count("failed") > 0 =>
                  ("failed" \in DOMAIN Report /\ Report.failed = Count("failed"))
           /\ "skipped" \in DOMAIN Report /\ Report.skipped = Count("skipped")
           /\ Count("done") + Count("failed") + Count("skipped") = Len(pairs)

\* C20 (as claimed): a batch of the GUI worker in which every Job is done or skipped
\* does not end with the error event.
C20_SkipIsNoError ==
    (mode = "gui" /\ RunOver /\ \A k \in JobIds : status[k] \in {"done", "skipped"})
        => terminal # "error"

(***************************************************************************)
(* C24, C25: the slots of the dictionary during the first loop (SpecPair)  *)
(***************************************************************************)
\* the positions the first loop has been through whose file has grouping key  key
\* and holds keyword  kw
Holders(key, kw) ==
    { n \in 1..(idx - 1) : KeyOf(pdfs[n]) = key /\ Contains(LowStem(pdfs[n]), kw) }

\* the first of a non-empty set of positions
FirstOf(S) == CHOOSE n \in S : \A m \in S : n <= m

\* the file the first loop went through last
LastLooped == pdfs[idx - 1]

\* C24 (as claimed): at every point of the first loop, the cover slot of a bucket
\* holds the first file of that bucket with the cover keyword the loop has been
\* through, and its invoice slot the first one with the invoice keyword.
C24_FirstRoleHolderKept ==
    \A key \in DOMAIN groups :
        /\ Holders(key, COVER_KEYWORD) # {}
               => groups[key].cover = pdfs[FirstOf(Holders(key, COVER_KEYWORD))]
        /\ Holders(key, INVOICE_KEYWORD) # {}
               => groups[key].invoice = pdfs[FirstOf(Holders(key, INVOICE_KEYWORD))]

\* the last of a non-empty set of positions
LastOf(S) == CHOOSE n \in S : \A m \in S : m <= n

\* C24 (amended): when the engine has returned, the cover slot of every bucket
\* holds the last file of that bucket with the cover keyword in the input list, and
\* its invoice slot the last one with the invoice keyword; a slot is empty exactly
\* when the list has no file of its role in the bucket.
C24_LastRoleHolderKept ==
    ppc = "done" =>
        \A key \in DOMAIN groups :
            /\ groups[key].cover =
                   IF Holders(key, COVER_KEYWORD) = {} THEN None
                   ELSE pdfs[LastOf(Holders(key, COVER_KEYWORD))]
            /\ groups[key].invoice =
                   IF Holders(key, INVOICE_KEYWORD) = {} THEN None
                   ELSE pdfs[LastOf(Holders(key, INVOICE_KEYWORD))]

\* C24, witness: the engine has returned for a list of three files that begins with
\* two different files of one bucket with the invoice keyword, and the invoice slot
\* of the bucket holds the second.
C24_Witness ==
    /\ ppc = "done" /\ Len(pdfs) = 3
    /\ \E key \in DOMAIN groups :
          /\ Holders(key, INVOICE_KEYWORD) = {1, 2}
          /\ pdfs[1] # pdfs[2]
          /\ groups[key].invoice = pdfs[2]

\* C25 (as claimed): when the first loop has just been through a file whose stem
\* holds both keywords, that file is in the cover slot of its bucket and not in its
\* invoice slot.
C25_BothKeywordsIsCover ==
    (ppc = "loop" /\ idx > 1 /\ HasCoverKw(LastLooped) /\ HasInvoiceKw(LastLooped))
        => /\ groups[KeyOf(LastLooped)].cover = LastLooped
           /\ groups[KeyOf(LastLooped)].invoice # LastLooped

(***************************************************************************)
(* C22: merge_pdfs (SpecMerge)                                             *)
(***************************************************************************)
\* the pages the two inputs held when merge_pdfs was called
FirstPages == mg.fs0[mg.first].pages

SecondPages == mg.fs0[mg.second].pages

\* merge_pdfs returned normally
MergeReturned == mg.pc = "done" /\ mg.ret = "None"

\* C22: when merge_pdfs(first, second, out_pdf) returns, out_pdf is a document with
\* pageCount(first) + pageCount(second) pages; its page n is page n of first for
\* n up to pageCount(first), and its page pageCount(first) + n is page n of second:
\* no page is dropped, reordered or duplicated. This holds for all page sequences of
\* the inputs, also when first and second are one path or out_pdf is one of them.
C22_MergedPagesInOrder ==
    MergeReturned =>
        /\ Exists(mg.fs, mg.out) /\ mg.fs[mg.out].state = "pdf"
        /\ Len(mg.fs[mg.out].pages) = Len(FirstPages) + Len(SecondPages)
        /\ \A n \in 1..Len(FirstPages) : mg.fs[mg.out].pages[n] = FirstPages[n]
        /\ \A n \in 1..Len(SecondPages) :
               mg.fs[mg.out].pages[Len(FirstPages) + n] = SecondPages[n]

\* C22, witness: merge_pdfs returned for a first document of two different pages and
\* a second document that begins with another page than the first one does.
C22_Witness ==
    /\ MergeReturned
    /\ mg.first # mg.second /\ mg.out \notin {mg.first, mg.second}
    /\ Len(FirstPages) = 2 /\ FirstPages[1] # FirstPages[2]
    /\ Len(SecondPages) >= 1 /\ SecondPages[1] # FirstPages[1]

(***************************************************************************)
(* C23: is_valid_pdf (SpecValid)                                           *)
(***************************************************************************)
\* is_valid_pdf has ended, by a return or by an exception
ValidEnded == iv.pc = "done"

\* the file at filepath can be read and begins with the five bytes of the magic
BeginsWithMagic ==
    /\ iv.file.kind = "file"
    /\ Len(iv.file.bytes) >= 5
    /\ \A n \in 1..5 : iv.file.bytes[n] = PDF_MAGIC[n]

\* C23: is_valid_pdf(path) never raises; it returns True if and only if the file
\* can be read and its first 5 bytes are %PDF-; it returns False for a missing
\* path, an unreadable one, an empty file, a file shorter than 5 bytes and a file
\* that begins with other bytes.
C23_ValidIffMagicHeader ==
    ValidEnded =>
        /\ iv.ret \in {"True", "False"}
        /\ iv.ret = "True" <=> BeginsWithMagic
        /\ (\/ iv.file.kind \in {"missing", "denied", "dir", "ioerror"}
            \/ Len(iv.file.bytes) < 5
            \/ \E n \in 1..5 : iv.file.bytes[n] # PDF_MAGIC[n]) => iv.ret = "False"

\* C23, witness: is_valid_pdf returned True for a file that holds more than the five
\* bytes of the magic.
C23_Witness ==
    /\ ValidEnded /\ iv.ret = "True"
    /\ iv.file.kind = "file" /\ Len(iv.file.bytes) > 5

(***************************************************************************)
(* C21, C26..C28: the window (SpecGui, SpecGuiFair)                        *)
(***************************************************************************)
\* the worker thread is inside _process_thread
WorkerRuns == wpc \notin {"off", "idle", "end"}

\* the worker has left the comprehension that reads the selected files
ListRead == wpc \notin {"off", "idle", "begin", "read"}

\* C21 (as claimed): when Ghostscript cannot be run the GUI worker starts no Job: no
\* flatten and no merge is invoked.
C21_NoJobWithoutTool ==
    ~gs_ok => \A k \in DOMAIN steps : steps[k] = <<>>

\* the terminal event is the last event the worker has put, and the only one
OneTerminalLast ==
    /\ sent # <<>>
    /\ sent[Len(sent)] \in TerminalEvents
    /\ \A n \in 1..(Len(sent) - 1) : sent[n] \notin TerminalEvents

\* the UI thread has got every event of the run, processing is cleared, the
\* controls are enabled and no call of _check_queue is left
UiSettled ==
    /\ seen = sent /\ eventq = <<>>
    /\ ~processing /\ enabled
    /\ polls = 0 /\ upc = "idle"

\* C26: while the GUI worker runs it has put no terminal event; when it has
\* returned, by whichever path, the terminal event is the last event it put and the
\* only terminal one; the UI thread gets the events in the order they were put;
\* and once the worker has returned, the UI thread eventually has got every event,
\* has cleared processing and enabled the controls, and no _check_queue is
\* scheduled.
C26_OneTerminalEventThenSettled ==
    /\ [](WorkerRuns => \A n \in 1..Len(sent) : sent[n] \notin TerminalEvents)
    /\ [](wpc = "end" => OneTerminalLast)
    /\ [](IsPrefix(seen, sent))
    /\ (wpc = "end" /\ processing) ~> UiSettled

\* C26, witness: the UI has settled after a run of two Jobs that ended with the
\* success event.
C26_Witness ==
    /\ wpc = "end" /\ UiSettled
    /\ Len(pairs) = 2 /\ terminal = "success"
    /\ Len(sent) > 3

\* C27: never more than one worker thread runs; a worker runs only while processing
\* is set, so processing is cleared only after the worker has put its terminal
\* event and returned; and Begin Processing while processing is set starts none.
C27_OneWorkerAtATime ==
    /\ live <= 1
    /\ (live = 1) <=> WorkerRuns
    /\ WorkerRuns => processing
    /\ (~processing /\ wpc = "end") => OneTerminalLast

\* C27, witness: Begin Processing was requested while the worker ran, and the run
\* went on to its end with one worker.
C27_Witness ==
    /\ busy_hit /\ wpc = "end" /\ live = 0 /\ ~processing
    /\ terminal = "success"

\* C28 (as claimed): the files the worker pairs and processes are the selected-file
\* list as it was when Begin Processing was accepted.
C28_WorkerUsesAcceptedList ==
    ListRead => pdfs = pdfs0

=============================================================================
